---- MODULE Spec2Model ----
(***************************************************************************)
(* Render-origin classifier of chrome-ssr-inspector (class SSRDetector):   *)
(* the element -> RenderType map, the two MutationObservers (capture and   *)
(* monitoring), the lifecycle phase, and the host document they observe.   *)
(***************************************************************************)
EXTENDS Integers, Sequences, FiniteSets, TLC

\* ------------------------------------------------------------------ bounds
\* Mutation records one observer may hold undelivered.
MaxQueue == 2

\* ------------------------------------------------------------ the document
Structural == {"html", "head", "body"}
\* Page elements other than <html>, <head>, <body>.
Extra == {"e1", "e2"}
Elements == Structural \cup Extra

\* The document node, the "no parent" mark of a detached node, a text node.
Doc == "#document"
Detached == "#detached"
TextNode == "#text"
\* A reference that holds no object (null / undefined).
Null == "null"

\* enum RenderType
SSR == "SSR"
CSR == "CSR"
RenderType == {SSR, CSR}

VARIABLES
  parent,         \* host: element -> its parent node (Doc, an element, Detached)
  readyState,     \* host: document.readyState
  dclFired,       \* host: the DOMContentLoaded event has been dispatched
  pc,             \* "new" before `new SSRDetector()`, "live" after it
  dclListener,    \* number of registered DOMContentLoaded listeners not yet run
  elementStates,  \* SSRDetector.elementStates (Null = no entry)
  phase,          \* SSRDetector.phase
  ssrObserver,    \* SSRDetector.ssrObserver (ref = Null: the field holds null)
  csrObserver,    \* SSRDetector.csrObserver (ref = Null: the field holds null)
  last,           \* history: the last step ("host" for a step of the page), with a query's argument and result
  torn,           \* history: destroy() has been called
  switchCount,    \* history: how many times switchToCSRMonitoring ran
  leaked,         \* the observers still connected that no field refers to any more
  reentered,      \* history: startSSRCapture() has been invoked a second time
  failure,        \* where an exception thrown by observe() ended up (Null: none thrown)
  inspPc,         \* "new" before `new SSRInspector()`, then "live" or "failed"
  inspEnabled,    \* SSRInspector.enabled
  stored,         \* what chrome.storage.sync holds for inspectorEnabled: <<>> or <<value>>
  getPending,     \* the callback of loadSettings' storage.sync.get has not run yet
  getResult,      \* what that storage.sync.get read for inspectorEnabled: <<>> or <<value>>
  changes,        \* storage.onChanged notifications not yet delivered to this tab
  flipped,        \* history: <<v>>, v the flag as loadSettings' callback left it, flipped once per toggle() since; <<>> when a toggle() ran before that callback
  ovPc,           \* "new" before `new OverlayManager()`, then "live" or "failed"
  ovEnabled,      \* OverlayManager.enabled
  overlay,        \* OverlayManager.overlay: Null, or its style.display
  tooltip,        \* Tooltip.tooltip: Null, or its style.display
  currentElement, \* OverlayManager.currentElement
  mouseMoveHandler, \* number of mousemove listeners of the manager on the document
  mouseOutHandler,  \* number of mouseout listeners of the manager on the document
  bodyWait,         \* the widgets whose observer still waits for document.body
  popPc,            \* "closed" before the popup's DOMContentLoaded handler ran, then "open"
  contentScriptAvailable, \* popup.ts: the flag of that name
  statusText,       \* popup: statusText.textContent (Null: as in the popup's HTML)
  toggleDisabled,   \* popup: toggleButton.disabled
  statusReq,        \* popup: where loadStatus' GET_STATUS request is
  statsReq,         \* popup: where the GET_STATS request in flight is
  shownStats,       \* popup: the counts updateStats displayed last (Null: none yet)
  toggleQuery,      \* popup: clicks whose chrome.tabs.query has not answered yet
  toggleSent,       \* TOGGLE_INSPECTOR messages on their way to the content script
  toggleReplies     \* answers to TOGGLE_INSPECTOR not yet handled by the popup: <<>> (lastError) or <<enabled>>

\* The classifier and the page.
coreVars == <<parent, readyState, dclFired, pc, dclListener, elementStates, phase,
              ssrObserver, csrObserver, last, torn, switchCount>>

\* The overlay manager and its tooltip.
overlayVars == <<ovPc, ovEnabled, overlay, tooltip, currentElement,
                 mouseMoveHandler, mouseOutHandler, bodyWait>>

\* The controller of the content script and the setting it persists.
inspectorVars == <<inspPc, inspEnabled, stored, getPending, getResult, changes, flipped>>

\* The popup page of the extension.
popupVars == <<popPc, contentScriptAvailable, statusText, toggleDisabled, statusReq,
               statsReq, shownStats, toggleQuery, toggleSent, toggleReplies>>

\* What the classifier's own steps never touch.
extVars == <<reentered, failure, inspectorVars, overlayVars, popupVars>>

vars == <<coreVars, leaked, extVars>>

histVars == <<torn, switchCount>>

\* ------------------------------------------------------------- tree helpers
\* Proper ancestors of n (elements, and Doc when n is in the document).
RECURSIVE Ancestors(_, _)
Ancestors(par, n) ==
  IF n \in Elements /\ par[n] # Detached
    THEN {par[n]} \cup Ancestors(par, par[n])
    ELSE {}

\* element.querySelectorAll('*'): the proper descendants of node n.
querySelectorAll(par, n) == {d \in Elements : n \in Ancestors(par, d)}

\* document.documentElement
documentElement(par) ==
  IF \E e \in Elements : par[e] = Doc
    THEN CHOOSE e \in Elements : par[e] = Doc
    ELSE Null

\* document.body
body(par) ==
  IF par["html"] = Doc /\ par["body"] = "html" THEN "body" ELSE Null

\* `a || b` on references
OrElse(a, b) == IF a # Null THEN a ELSE b

\* ------------------------------------------------------- MutationObserver
\* A connected observer: the observed target, the undelivered records, and
\* the removed nodes that still carry a transient registration of it.
NoObserver == [ref |-> Null, target |-> Null, records |-> <<>>, transient |-> {}]

\* new MutationObserver(callback) followed by observe(target, ...); observing a
\* null target throws, which leaves the created observer registered nowhere.
NewObserver(target) ==
  [ref |-> "observer", target |-> target, records |-> <<>>, transient |-> {}]

\* observe(target, {childList: true, subtree: true}) reports a child-list
\* change of node p when p is the target, lies under it, or lies in a subtree
\* removed from under it since the last delivery.
Observes(obs, par, p) ==
  /\ obs.ref # Null
  /\ obs.target # Null
  /\ \/ p = obs.target
     \/ obs.target \in Ancestors(par, p)
     \/ p \in obs.transient
     \/ Ancestors(par, p) \cap obs.transient # {}

\* A record of one insertion: addedNodes, plus (history) the entry-less part
\* of the inserted subtree when its root is a fresh element.
Record(states, par, n) ==
  [addedNodes |-> <<n>>,
   fresh |-> IF n \in Elements /\ states[n] = Null
               THEN {n} \cup {d \in querySelectorAll(par, n) : states[d] = Null}
               ELSE {}]

Enqueue(obs, states, par, p, n) ==
  IF Observes(obs, par, p)
    THEN [obs EXCEPT !.records = Append(@, Record(states, par, n))]
    ELSE obs

NoteRemoval(obs, par, p, n) ==
  IF Observes(obs, par, p)
    THEN [obs EXCEPT !.transient = @ \cup {n}]
    ELSE obs

HasRoom(obs, par, p) ==
  Observes(obs, par, p) => Len(obs.records) < MaxQueue

\* An observer whose pending records are all delivered drops its transient
\* registrations; one with pending records keeps them until its delivery.
EndTransient(obs) ==
  IF obs.records = <<>> THEN [obs EXCEPT !.transient = {}] ELSE obs

\* No observer has been overwritten while connected.
NoLeak == [ssr |-> NoObserver, csr |-> NoObserver]

\* A field holding `old` is overwritten without disconnect(): `old`, if it is
\* an observer, stays connected; `slot` is what was left that way before.
Overwritten(slot, old) == IF old.ref # Null THEN old ELSE slot

\* The nodes a batch of records adds, in delivery order.
RECURSIVE AddedNodes(_)
AddedNodes(records) ==
  IF records = <<>> THEN <<>>
  ELSE Head(records).addedNodes \o AddedNodes(Tail(records))

\* ------------------------------------------------------------- SSRDetector
\* Faulty variant: the initial walk covers the body's subtree only.
captureExistingElements_BodyOnly(states, par) ==
  [e \in Elements |-> IF e \in querySelectorAll(par, "body") THEN SSR ELSE states[e]]

\* captureExistingElements: every element in the document becomes SSR.
captureExistingElements(states, par) ==
  [e \in Elements |-> IF e \in querySelectorAll(par, Doc) THEN SSR ELSE states[e]]

\* Faulty variant: the capture callback tags the added node and not its descendants.
ssrAdded_RootOnly(states, par, node) ==
  IF node \in Elements THEN [states EXCEPT ![node] = SSR] ELSE states

\* The ssrObserver callback for one added node.
ssrAdded(states, par, node) ==
  IF node \in Elements
    THEN [e \in Elements |->
            IF e = node THEN SSR
            ELSE IF e \in querySelectorAll(par, node) /\ states[e] = Null THEN SSR
            ELSE states[e]]
    ELSE states

RECURSIVE ssrCallback(_, _, _)
ssrCallback(states, par, nodes) ==
  IF nodes = <<>> THEN states
  ELSE ssrCallback(ssrAdded(states, par, Head(nodes)), par, Tail(nodes))

\* Faulty variant: no final scan.
finalScan_Skipped(states, par) == states

\* The final scan of switchToCSRMonitoring.
finalScan(states, par) ==
  [e \in Elements |->
     IF e \in querySelectorAll(par, Doc) /\ states[e] = Null THEN SSR ELSE states[e]]

\* Faulty variant: markAsCSR tags the element and not its descendants.
markAsCSR_RootOnly(states, par, element) == [states EXCEPT ![element] = CSR]

\* Faulty variant: markAsCSR tags every descendant, entry or not.
markAsCSR_Overwrite(states, par, element) ==
  [d \in Elements |->
     IF d = element \/ d \in querySelectorAll(par, element) THEN CSR ELSE states[d]]

markAsCSR(states, par, element) ==
  [e \in Elements |->
     IF e = element THEN CSR
     ELSE IF e \in querySelectorAll(par, element) /\ states[e] = Null THEN CSR
     ELSE states[e]]

\* Faulty variant: the monitoring callback marks every added element, known or not.
csrAdded_NoHasCheck(states, par, node) ==
  IF node \in Elements THEN markAsCSR(states, par, node) ELSE states

\* Faulty variant: the monitoring callback forgets an element it finds moved.
csrAdded_ForgetsMoved(states, par, node) ==
  IF node \in Elements
    THEN IF states[node] = Null
           THEN markAsCSR(states, par, node)
           ELSE [states EXCEPT ![node] = Null]
    ELSE states

\* The csrObserver callback for one added node.
csrAdded(states, par, node) ==
  IF node \in Elements /\ states[node] = Null
    THEN markAsCSR(states, par, node)
    ELSE states

RECURSIVE csrCallback(_, _, _)
csrCallback(states, par, nodes) ==
  IF nodes = <<>> THEN states
  ELSE csrCallback(csrAdded(states, par, Head(nodes)), par, Tail(nodes))

\* Faulty variant: the stored value is returned as it is, undefined when missing.
getRenderType_NoDefault(states, element) == states[element]

\* Faulty variant: an element without an entry is reported CSR.
getRenderType_DefaultCSR(states, element) ==
  IF states[element] # Null THEN states[element] ELSE CSR

getRenderType(states, element) ==
  IF states[element] # Null THEN states[element] ELSE SSR

isSSR(states, element) == getRenderType(states, element) = SSR

\* Faulty variant: getStats counts stored entries instead of asking getRenderType.
getStats_EntriesOnly(states, par) ==
  LET allElements == querySelectorAll(par, Doc)
  IN [ssr |-> Cardinality({e \in allElements : states[e] = SSR}),
      csr |-> Cardinality({e \in allElements : states[e] = CSR}),
      total |-> Cardinality(allElements)]

getStats(states, par) ==
  LET allElements == querySelectorAll(par, Doc)
  IN [ssr |-> Cardinality({e \in allElements : getRenderType(states, e) = SSR}),
      csr |-> Cardinality({e \in allElements : getRenderType(states, e) = CSR}),
      total |-> Cardinality(allElements)]

\* The step taken last: its name and, where it has one, its argument and result.
Step(op) == [op |-> op, arg |-> Null, value |-> Null]
Call(op, arg, value) == [op |-> op, arg |-> arg, value |-> value]

\* ------------------------------------------------------------------- Init
Init ==
  /\ parent \in {[e \in Elements |-> Detached],
                 [e \in Elements |-> IF e = "html" THEN Doc ELSE Detached]}
  /\ readyState = "loading"
  /\ dclFired = FALSE
  /\ pc = "new"
  /\ dclListener = 0
  /\ elementStates = [e \in Elements |-> Null]
  /\ phase = "capturing_ssr"
  /\ ssrObserver = NoObserver
  /\ csrObserver = NoObserver
  /\ last = Step("init")
  /\ torn = FALSE
  /\ switchCount = 0
  /\ leaked = NoLeak
  /\ reentered = FALSE
  /\ failure = Null
  /\ inspPc = "new"
  /\ inspEnabled = FALSE
  /\ stored = <<>>
  /\ getPending = FALSE
  /\ getResult = <<>>
  /\ changes = <<>>
  /\ flipped = <<FALSE>>
  /\ ovPc = "new"
  /\ ovEnabled = FALSE
  /\ overlay = Null
  /\ tooltip = Null
  /\ currentElement = Null
  /\ mouseMoveHandler = 0
  /\ mouseOutHandler = 0
  /\ bodyWait = {}
  /\ popPc = "closed"
  /\ contentScriptAvailable = TRUE
  /\ statusText = Null
  /\ toggleDisabled = FALSE
  /\ statusReq = "none"
  /\ statsReq = "none"
  /\ shownStats = Null
  /\ toggleQuery = 0
  /\ toggleSent = 0
  /\ toggleReplies = <<>>


\* ------------------------------------------------------------ host actions
\* Where the host may put element e: <html> under the document, <head> and
\* <body> under <html> while parsing, any other element under any element
\* below <html> (attached or not) that is not inside e itself.
CanPlace(e, p) ==
  /\ parent[e] = Detached
  /\ p # e
  /\ p \notin querySelectorAll(parent, e)
  /\ CASE e = "html" -> p = Doc /\ readyState = "loading"
       [] e = "head" -> p = "html" /\ readyState = "loading" /\ parent["body"] = Detached
       [] e = "body" -> p = "html" /\ readyState = "loading"
       [] OTHER -> p \in Elements \ {"html"}

\* The parser or a script inserts element e (with its subtree) under p.
Insert(e, p) ==
  /\ CanPlace(e, p)
  /\ HasRoom(ssrObserver, parent, p)
  /\ HasRoom(csrObserver, parent, p)
  /\ HasRoom(leaked.ssr, parent, p)
  /\ HasRoom(leaked.csr, parent, p)
  /\ parent' = [parent EXCEPT ![e] = p]
  /\ ssrObserver' = Enqueue(ssrObserver, elementStates, parent, p, e)
  /\ csrObserver' = Enqueue(csrObserver, elementStates, parent, p, e)
  /\ last' = Step("host")
  /\ UNCHANGED <<readyState, dclFired, pc, dclListener, elementStates, phase>>
  /\ UNCHANGED histVars
  /\ leaked' = [ssr |-> Enqueue(leaked.ssr, elementStates, parent, p, e),
                csr |-> Enqueue(leaked.csr, elementStates, parent, p, e)]
  /\ UNCHANGED extVars

\* A script removes element e (with its subtree) from its parent.
Remove(e) ==
  /\ e \in Extra
  /\ parent[e] # Detached
  /\ parent' = [parent EXCEPT ![e] = Detached]
  /\ ssrObserver' = NoteRemoval(ssrObserver, parent, parent[e], e)
  /\ csrObserver' = NoteRemoval(csrObserver, parent, parent[e], e)
  /\ last' = Step("host")
  /\ UNCHANGED <<readyState, dclFired, pc, dclListener, elementStates, phase>>
  /\ UNCHANGED histVars
  /\ leaked' = [ssr |-> NoteRemoval(leaked.ssr, parent, parent[e], e),
                csr |-> NoteRemoval(leaked.csr, parent, parent[e], e)]
  /\ UNCHANGED extVars

\* The parser or a script inserts a text node under an observed element p.
InsertText(p) ==
  /\ \/ Observes(ssrObserver, parent, p)
     \/ Observes(csrObserver, parent, p)
     \/ Observes(leaked.ssr, parent, p)
     \/ Observes(leaked.csr, parent, p)
  /\ HasRoom(ssrObserver, parent, p)
  /\ HasRoom(csrObserver, parent, p)
  /\ HasRoom(leaked.ssr, parent, p)
  /\ HasRoom(leaked.csr, parent, p)
  /\ ssrObserver' = Enqueue(ssrObserver, elementStates, parent, p, TextNode)
  /\ csrObserver' = Enqueue(csrObserver, elementStates, parent, p, TextNode)
  /\ last' = Step("host")
  /\ UNCHANGED <<parent, readyState, dclFired, pc, dclListener, elementStates, phase>>
  /\ UNCHANGED histVars
  /\ leaked' = [ssr |-> Enqueue(leaked.ssr, elementStates, parent, p, TextNode),
                csr |-> Enqueue(leaked.csr, elementStates, parent, p, TextNode)]
  /\ UNCHANGED extVars

\* The parser reaches the end of the source: readyState leaves "loading".
ParseComplete ==
  /\ readyState = "loading"
  /\ parent["html"] = Doc
  /\ readyState' = "interactive"
  /\ last' = Step("host")
  /\ UNCHANGED <<parent, dclFired, pc, dclListener, elementStates, phase,
                 ssrObserver, csrObserver>>
  /\ UNCHANGED histVars
  /\ UNCHANGED leaked
  /\ UNCHANGED extVars

\* ------------------------------------------------------ SSRDetector actions
\* Faulty variant: the switch leaves the capture watch connected.
switchToCSRMonitoring_KeepsCapture(states) ==
  /\ ssrObserver' = ssrObserver
  /\ elementStates' = finalScan(states, parent)
  /\ phase' = "monitoring_csr"
  /\ csrObserver' = NewObserver(OrElse(body(parent), documentElement(parent)))
  /\ switchCount' = switchCount + 1

\* Faulty variant: the switch installs the monitoring watch and leaves the
\* phase as it was.
switchToCSRMonitoring_NoPhase(states) ==
  /\ ssrObserver' = IF ssrObserver.ref # Null THEN NoObserver ELSE ssrObserver
  /\ elementStates' = finalScan(states, parent)
  /\ phase' = phase
  /\ csrObserver' = NewObserver(OrElse(body(parent), documentElement(parent)))
  /\ switchCount' = switchCount + 1

\* Faulty variant: the switch leaves a capture watch that still has
\* undelivered records connected.
switchToCSRMonitoring_DrainsFirst(states) ==
  /\ ssrObserver' = IF ssrObserver.ref # Null /\ ssrObserver.records = <<>>
                      THEN NoObserver ELSE ssrObserver
  /\ elementStates' = finalScan(states, parent)
  /\ phase' = "monitoring_csr"
  /\ csrObserver' = NewObserver(OrElse(body(parent), documentElement(parent)))
  /\ switchCount' = switchCount + 1

\* switchToCSRMonitoring, run on the map `states`.
switchToCSRMonitoring(states) ==
  /\ ssrObserver' = IF ssrObserver.ref # Null THEN NoObserver ELSE ssrObserver
  /\ elementStates' = finalScan(states, parent)
  /\ phase' = "monitoring_csr"
  /\ csrObserver' = NewObserver(OrElse(body(parent), documentElement(parent)))
  /\ switchCount' = switchCount + 1

\* Faulty variant: init() registers the listener and also switches when already loaded.
Construct_ListenAndSwitch ==
  /\ pc = "new"
  /\ pc' = "live"
  /\ last' = Step("Construct")
  /\ dclListener' = 1
  /\ LET captured == captureExistingElements(elementStates, parent)
     IN IF readyState = "loading"
          THEN /\ elementStates' = captured
               /\ ssrObserver' = NewObserver(OrElse(documentElement(parent), Doc))
               /\ UNCHANGED <<phase, csrObserver, switchCount>>
          ELSE switchToCSRMonitoring(captured)
  /\ UNCHANGED <<parent, readyState, dclFired>>
  /\ UNCHANGED torn
  /\ UNCHANGED leaked
  /\ UNCHANGED extVars

\* Faulty variant: init() starts the monitoring watch together with the
\* capture watch.
init_MonitorsAtOnce ==
  LET captured == captureExistingElements(elementStates, parent)
  IN IF readyState = "loading"
       THEN /\ elementStates' = captured
            /\ ssrObserver' = NewObserver(OrElse(documentElement(parent), Doc))
            /\ csrObserver' = NewObserver(OrElse(body(parent), documentElement(parent)))
            /\ dclListener' = 1
            /\ UNCHANGED <<phase, switchCount>>
       ELSE /\ switchToCSRMonitoring(captured)
            /\ dclListener' = 0

\* Faulty variant: init() waits for DOMContentLoaded whatever the readyState.
init_AlwaysWaits ==
  /\ elementStates' = captureExistingElements(elementStates, parent)
  /\ ssrObserver' = NewObserver(OrElse(documentElement(parent), Doc))
  /\ dclListener' = 1
  /\ UNCHANGED <<phase, csrObserver, switchCount>>

\* init(), as an effect on the detector's own state: startSSRCapture(), then
\* the listener or the switch.
init ==
  LET captured == captureExistingElements(elementStates, parent)
  IN IF readyState = "loading"
       THEN /\ elementStates' = captured
            /\ ssrObserver' = NewObserver(OrElse(documentElement(parent), Doc))
            /\ dclListener' = 1
            /\ UNCHANGED <<phase, csrObserver, switchCount>>
       ELSE /\ switchToCSRMonitoring(captured)
            /\ dclListener' = 0

\* new SSRDetector()
Construct ==
  /\ pc = "new"
  /\ pc' = "live"
  /\ last' = Step("Construct")
  /\ init
  /\ UNCHANGED <<parent, readyState, dclFired>>
  /\ UNCHANGED torn
  /\ UNCHANGED leaked
  /\ UNCHANGED extVars

\* The host dispatches DOMContentLoaded (once) and runs the registered
\* listeners one after the other, each as a step of its own: the host performs
\* a microtask checkpoint between two listeners.
DOMContentLoaded ==
  /\ readyState = "interactive"
  /\ ~dclFired \/ dclListener > 0
  /\ dclFired' = TRUE
  /\ last' = Step("DOMContentLoaded")
  /\ IF dclListener > 0
       THEN /\ switchToCSRMonitoring(elementStates)
            /\ dclListener' = dclListener - 1
            /\ leaked' = [leaked EXCEPT !.csr = Overwritten(@, csrObserver)]
       ELSE UNCHANGED <<ssrObserver, elementStates, phase, csrObserver, switchCount,
                        dclListener, leaked>>
  /\ UNCHANGED <<parent, readyState, pc>>
  /\ UNCHANGED torn
  /\ UNCHANGED extVars

\* The elements among the nodes a batch of records adds.
ElementsOf(records) ==
  {AddedNodes(records)[i] : i \in 1..Len(AddedNodes(records))} \cap Elements

\* The host delivers the capture watch's pending records as one batch.
DeliverSSR ==
  /\ ssrObserver.ref # Null
  /\ ssrObserver.records # <<>>
  /\ elementStates' = ssrCallback(elementStates, parent, AddedNodes(ssrObserver.records))
  /\ ssrObserver' = [ssrObserver EXCEPT !.records = <<>>, !.transient = {}]
  /\ last' = Step("DeliverSSR")
  /\ UNCHANGED <<parent, readyState, dclFired, pc, dclListener, phase, csrObserver>>
  /\ UNCHANGED histVars
  /\ UNCHANGED leaked
  /\ UNCHANGED extVars

\* The part of a record's fresh subtree that is still under its root.
StillUnder(par, rec) ==
  {d \in rec.fresh : d = rec.addedNodes[1] \/ d \in querySelectorAll(par, rec.addedNodes[1])}

\* The elements of a batch that hold an entry when the batch is processed:
\* those for which `!this.elementStates.has(element)` is false.
Known(states, records) == {n \in ElementsOf(records) : states[n] # Null}

\* The host delivers the monitoring watch's pending records as one batch.
\* `last` keeps the batch's nodes and which of them the callback skipped.
DeliverCSR ==
  /\ csrObserver.ref # Null
  /\ csrObserver.records # <<>>
  /\ elementStates' = csrCallback(elementStates, parent, AddedNodes(csrObserver.records))
  /\ csrObserver' = [csrObserver EXCEPT !.records = <<>>, !.transient = {}]
  /\ last' = Call("DeliverCSR", AddedNodes(csrObserver.records),
                  Known(elementStates, csrObserver.records))
  /\ UNCHANGED <<parent, readyState, dclFired, pc, dclListener, phase, ssrObserver>>
  /\ UNCHANGED histVars
  /\ UNCHANGED leaked
  /\ UNCHANGED extVars

\* The host delivers a batch of removal records only (no addedNodes): the
\* callbacks change nothing, the transient registrations end.
DeliverRemovals ==
  /\ \/ ssrObserver.records = <<>> /\ ssrObserver.transient # {}
     \/ csrObserver.records = <<>> /\ csrObserver.transient # {}
     \/ leaked.ssr.records = <<>> /\ leaked.ssr.transient # {}
     \/ leaked.csr.records = <<>> /\ leaked.csr.transient # {}
  /\ ssrObserver' = EndTransient(ssrObserver)
  /\ csrObserver' = EndTransient(csrObserver)
  /\ last' = Step("host")
  /\ UNCHANGED <<parent, readyState, dclFired, pc, dclListener, elementStates, phase>>
  /\ UNCHANGED histVars
  /\ leaked' = [ssr |-> EndTransient(leaked.ssr), csr |-> EndTransient(leaked.csr)]
  /\ UNCHANGED extVars

\* new MutationObserver(callback) whose observe() call throws: the field holds
\* an observer that is registered nowhere.
RejectedObserver == NewObserver(Null)

\* new SSRDetector() while the host rejects observe() for `watch`. The
\* exception leaves startSSRCapture(), or switchToCSRMonitoring() when the
\* document is already loaded, and then init() and the constructor: the
\* caller of `new` gets the exception and no object.
ConstructRejected(watch) ==
  /\ pc = "new"
  /\ pc' = "failed"
  /\ last' = Step("Construct")
  /\ failure' = "caller"
  /\ LET captured == captureExistingElements(elementStates, parent)
     IN \/ /\ watch = "ssr"
           /\ elementStates' = captured
           /\ ssrObserver' = RejectedObserver
           /\ UNCHANGED <<phase, csrObserver, switchCount>>
        \/ /\ watch = "csr"
           /\ readyState # "loading"
           /\ elementStates' = finalScan(captured, parent)
           /\ ssrObserver' = NoObserver
           /\ phase' = "monitoring_csr"
           /\ csrObserver' = RejectedObserver
           /\ switchCount' = switchCount + 1
  /\ UNCHANGED <<parent, readyState, dclFired, dclListener, torn, leaked>>
  /\ UNCHANGED <<reentered, inspectorVars, overlayVars, popupVars>>

\* The host dispatches DOMContentLoaded and rejects the observe() call of
\* startCSRMonitoring(): the exception leaves the listener and goes to the
\* host's event dispatch, which reports it as an uncaught error.
DOMContentLoadedRejected ==
  /\ readyState = "interactive"
  /\ dclListener > 0
  /\ dclFired' = TRUE
  /\ dclListener' = dclListener - 1
  /\ last' = Step("DOMContentLoaded")
  /\ failure' = "host"
  /\ ssrObserver' = IF ssrObserver.ref # Null THEN NoObserver ELSE ssrObserver
  /\ elementStates' = finalScan(elementStates, parent)
  /\ phase' = "monitoring_csr"
  /\ csrObserver' = RejectedObserver
  /\ switchCount' = switchCount + 1
  /\ leaked' = [leaked EXCEPT !.csr = Overwritten(@, csrObserver)]
  /\ UNCHANGED <<parent, readyState, pc, torn>>
  /\ UNCHANGED <<reentered, inspectorVars, overlayVars, popupVars>>

\* init() is invoked a second time on the constructed detector: there is no
\* guard, so startSSRCapture() runs again and overwrites this.ssrObserver, and
\* then a second listener is registered or switchToCSRMonitoring() runs.
InitAgain ==
  /\ pc = "live"
  /\ ~reentered
  /\ reentered' = TRUE
  /\ last' = Step("InitAgain")
  /\ LET captured == captureExistingElements(elementStates, parent)
     IN IF readyState = "loading"
          THEN /\ elementStates' = captured
               /\ ssrObserver' = NewObserver(OrElse(documentElement(parent), Doc))
               /\ dclListener' = dclListener + 1
               /\ leaked' = [leaked EXCEPT !.ssr = Overwritten(@, ssrObserver)]
               /\ UNCHANGED <<phase, csrObserver, switchCount>>
          ELSE /\ elementStates' = finalScan(captured, parent)
               /\ ssrObserver' = NoObserver
               /\ phase' = "monitoring_csr"
               /\ csrObserver' = NewObserver(OrElse(body(parent), documentElement(parent)))
               /\ switchCount' = switchCount + 1
               /\ leaked' = [ssr |-> Overwritten(leaked.ssr, ssrObserver),
                             csr |-> Overwritten(leaked.csr, csrObserver)]
               /\ UNCHANGED dclListener
  /\ UNCHANGED <<parent, readyState, dclFired, pc, torn>>
  /\ UNCHANGED <<failure, inspectorVars, overlayVars, popupVars>>

\* The host delivers the pending records of a capture observer that was
\* overwritten while connected: its callback still runs.
DeliverLeakedSSR ==
  /\ leaked.ssr.ref # Null
  /\ leaked.ssr.records # <<>>
  /\ elementStates' = ssrCallback(elementStates, parent, AddedNodes(leaked.ssr.records))
  /\ leaked' = [leaked EXCEPT !.ssr.records = <<>>, !.ssr.transient = {}]
  /\ last' = Step("DeliverLeakedSSR")
  /\ UNCHANGED <<parent, readyState, dclFired, pc, dclListener, phase,
                 ssrObserver, csrObserver>>
  /\ UNCHANGED histVars
  /\ UNCHANGED extVars

\* The same for a monitoring observer that was overwritten while connected.
DeliverLeakedCSR ==
  /\ leaked.csr.ref # Null
  /\ leaked.csr.records # <<>>
  /\ elementStates' = csrCallback(elementStates, parent, AddedNodes(leaked.csr.records))
  /\ leaked' = [leaked EXCEPT !.csr.records = <<>>, !.csr.transient = {}]
  /\ last' = Step("DeliverLeakedCSR")
  /\ UNCHANGED <<parent, readyState, dclFired, pc, dclListener, phase,
                 ssrObserver, csrObserver>>
  /\ UNCHANGED histVars
  /\ UNCHANGED extVars

\* Faulty variant: destroy() stops the monitoring watch only.
Destroy_KeepsCapture ==
  /\ pc = "live"
  /\ ssrObserver' = ssrObserver
  /\ csrObserver' = IF csrObserver.ref # Null THEN NoObserver ELSE csrObserver
  /\ torn' = TRUE
  /\ last' = Step("Destroy")
  /\ UNCHANGED <<parent, readyState, dclFired, pc, dclListener, elementStates, phase>>
  /\ UNCHANGED switchCount
  /\ UNCHANGED leaked
  /\ UNCHANGED extVars

\* Faulty variant: destroy() also empties elementStates.
Destroy_ClearsEntries ==
  /\ pc = "live"
  /\ ssrObserver' = IF ssrObserver.ref # Null THEN NoObserver ELSE ssrObserver
  /\ csrObserver' = IF csrObserver.ref # Null THEN NoObserver ELSE csrObserver
  /\ elementStates' = [e \in Elements |-> Null]
  /\ torn' = TRUE
  /\ last' = Step("Destroy")
  /\ UNCHANGED <<parent, readyState, dclFired, pc, dclListener, phase>>
  /\ UNCHANGED switchCount
  /\ UNCHANGED leaked
  /\ UNCHANGED extVars

\* destroy()
Destroy ==
  /\ pc = "live"
  /\ ssrObserver' = IF ssrObserver.ref # Null THEN NoObserver ELSE ssrObserver
  /\ csrObserver' = IF csrObserver.ref # Null THEN NoObserver ELSE csrObserver
  /\ torn' = TRUE
  /\ last' = Step("Destroy")
  /\ UNCHANGED <<parent, readyState, dclFired, pc, dclListener, elementStates, phase>>
  /\ UNCHANGED switchCount
  /\ UNCHANGED leaked
  /\ UNCHANGED extVars

\* Faulty variant: getRenderType stores the default it answers with.
Classify_StoresDefault(e) ==
  /\ pc = "live"
  /\ last' = Call("getRenderType", e, getRenderType(elementStates, e))
  /\ elementStates' = [elementStates EXCEPT ![e] = getRenderType(elementStates, e)]
  /\ UNCHANGED <<parent, readyState, dclFired, pc, dclListener, phase,
                 ssrObserver, csrObserver>>
  /\ UNCHANGED histVars
  /\ UNCHANGED leaked
  /\ UNCHANGED extVars

\* Faulty variant: getRenderType answers the default for an element it does
\* not know and from then on takes the element for one made by a script.
Classify_LearnsCSR(e) ==
  /\ pc = "live"
  /\ last' = Call("getRenderType", e, getRenderType(elementStates, e))
  /\ elementStates' = [elementStates EXCEPT ![e] = OrElse(@, CSR)]
  /\ UNCHANGED <<parent, readyState, dclFired, pc, dclListener, phase,
                 ssrObserver, csrObserver>>
  /\ UNCHANGED histVars
  /\ UNCHANGED leaked
  /\ UNCHANGED extVars

\* A collaborator calls getRenderType(element).
Classify(e) ==
  /\ pc = "live"
  /\ last' = Call("getRenderType", e, getRenderType(elementStates, e))
  /\ UNCHANGED <<parent, readyState, dclFired, pc, dclListener, elementStates, phase,
                 ssrObserver, csrObserver>>
  /\ UNCHANGED histVars
  /\ UNCHANGED leaked
  /\ UNCHANGED extVars

\* A collaborator calls getRenderType(element) again, straight after a call
\* for the same element.
Reclassify(e) ==
  /\ pc = "live"
  /\ last.op \in {"getRenderType", "getRenderType again"}
  /\ last.arg = e
  /\ last' = Call("getRenderType again", e, getRenderType(elementStates, e))
  /\ UNCHANGED <<parent, readyState, dclFired, pc, dclListener, elementStates, phase,
                 ssrObserver, csrObserver>>
  /\ UNCHANGED histVars
  /\ UNCHANGED leaked
  /\ UNCHANGED extVars

\* A collaborator calls isSSR(element).
IsSSR(e) ==
  /\ pc = "live"
  /\ last' = Call("isSSR", e, isSSR(elementStates, e))
  /\ UNCHANGED <<parent, readyState, dclFired, pc, dclListener, elementStates, phase,
                 ssrObserver, csrObserver>>
  /\ UNCHANGED histVars
  /\ UNCHANGED leaked
  /\ UNCHANGED extVars

\* A collaborator calls getPhase().
GetPhase ==
  /\ pc = "live"
  /\ last' = Call("getPhase", Null, phase)
  /\ UNCHANGED <<parent, readyState, dclFired, pc, dclListener, elementStates, phase,
                 ssrObserver, csrObserver>>
  /\ UNCHANGED histVars
  /\ UNCHANGED leaked
  /\ UNCHANGED extVars

\* A collaborator calls getStats().
Aggregate ==
  /\ pc = "live"
  /\ last' = Call("getStats", Null, getStats(elementStates, parent))
  /\ UNCHANGED <<parent, readyState, dclFired, pc, dclListener, elementStates, phase,
                 ssrObserver, csrObserver>>
  /\ UNCHANGED histVars
  /\ UNCHANGED leaked
  /\ UNCHANGED extVars

\* The elements in the document: those whose chain of parents ends at Doc.
LiveElements == {e \in Elements : Doc \in Ancestors(parent, e)}

\* --------------------------------------------------- OverlayManager actions
\* The widget a constructor's init() leaves behind: created hidden when
\* document.body exists, otherwise null until the waiting observer runs.
Created(par) == IF body(par) # Null THEN "none" ELSE Null

\* new OverlayManager(ssrDetector): the Tooltip's init() and then the
\* manager's init(). With neither body nor documentElement the Tooltip's
\* observe(document.documentElement) throws and no manager comes to exist.
newOverlayManager ==
  /\ IF body(parent) = Null /\ documentElement(parent) = Null
       THEN /\ ovPc' = "failed"
            /\ UNCHANGED <<overlay, tooltip, bodyWait>>
       ELSE /\ ovPc' = "live"
            /\ tooltip' = Created(parent)
            /\ overlay' = Created(parent)
            /\ bodyWait' = IF body(parent) # Null THEN {} ELSE {"tooltip", "overlay"}
  /\ UNCHANGED <<ovEnabled, currentElement, mouseMoveHandler, mouseOutHandler>>

\* A collaborator that holds a detector constructs an overlay manager.
OverlayConstruct ==
  /\ ovPc = "new"
  /\ pc = "live"
  /\ last' = Step("OverlayConstruct")
  /\ newOverlayManager
  /\ UNCHANGED <<parent, readyState, dclFired, pc, dclListener, elementStates, phase,
                 ssrObserver, csrObserver, torn, switchCount, leaked>>
  /\ UNCHANGED <<reentered, failure, inspectorVars, popupVars>>

\* The observer a widget's init() left waiting runs once document.body
\* exists: it creates the widget, hidden, and disconnects itself.
BodyAppeared(w) ==
  /\ w \in bodyWait
  /\ body(parent) # Null
  /\ bodyWait' = bodyWait \ {w}
  /\ overlay' = IF w = "overlay" THEN "none" ELSE overlay
  /\ tooltip' = IF w = "tooltip" THEN "none" ELSE tooltip
  /\ last' = Step("BodyAppeared")
  /\ UNCHANGED <<ovPc, ovEnabled, currentElement, mouseMoveHandler, mouseOutHandler>>
  /\ UNCHANGED <<parent, readyState, dclFired, pc, dclListener, elementStates, phase,
                 ssrObserver, csrObserver, torn, switchCount, leaked>>
  /\ UNCHANGED <<reentered, failure, inspectorVars, popupVars>>

\* hideOverlay() / Tooltip.hide(): a widget that exists gets display none.
Hidden(widget) == IF widget # Null THEN "none" ELSE widget

\* Tooltip.show() and the end of showOverlay(): a widget that exists gets
\* display block.
Shown(widget) == IF widget # Null THEN "block" ELSE widget

\* Faulty variant: enable() without its early return registers a further
\* pair of listeners on every call.
enable_NoGuard ==
  /\ ovEnabled' = TRUE
  /\ mouseMoveHandler' = mouseMoveHandler + 1
  /\ mouseOutHandler' = mouseOutHandler + 1
  /\ UNCHANGED <<ovPc, overlay, tooltip, currentElement, bodyWait>>

\* enable(), as an effect on the manager's own state.
enable ==
  IF ovEnabled
    THEN UNCHANGED overlayVars
    ELSE /\ ovEnabled' = TRUE
         /\ mouseMoveHandler' = mouseMoveHandler + 1
         /\ mouseOutHandler' = mouseOutHandler + 1
         /\ UNCHANGED <<ovPc, overlay, tooltip, currentElement, bodyWait>>

\* Faulty variant: disable() hides the overlay and leaves the tooltip.
disable_KeepsTooltip ==
  IF ~ovEnabled
    THEN UNCHANGED overlayVars
    ELSE /\ ovEnabled' = FALSE
         /\ mouseMoveHandler' = 0
         /\ mouseOutHandler' = 0
         /\ overlay' = Hidden(overlay)
         /\ UNCHANGED <<ovPc, tooltip, currentElement, bodyWait>>

\* disable(), as an effect on the manager's own state.
disable ==
  IF ~ovEnabled
    THEN UNCHANGED overlayVars
    ELSE /\ ovEnabled' = FALSE
         /\ mouseMoveHandler' = 0
         /\ mouseOutHandler' = 0
         /\ overlay' = Hidden(overlay)
         /\ tooltip' = Hidden(tooltip)
         /\ UNCHANGED <<ovPc, currentElement, bodyWait>>

\* What the detector and the page hold, untouched by the overlay manager.
detectorVars == <<parent, readyState, dclFired, pc, dclListener, elementStates, phase,
                  ssrObserver, csrObserver, torn, switchCount, leaked>>

\* What the overlay had on display when a call began.
Display == [overlay |-> overlay, tooltip |-> tooltip]

\* A collaborator calls enable().
OverlayEnable ==
  /\ ovPc = "live"
  /\ enable
  /\ last' = Call("enable", Null, Display)
  /\ UNCHANGED detectorVars
  /\ UNCHANGED <<reentered, failure, inspectorVars, popupVars>>

\* A collaborator calls disable().
OverlayDisable ==
  /\ ovPc = "live"
  /\ disable
  /\ last' = Call("disable", Null, Display)
  /\ UNCHANGED detectorVars
  /\ UNCHANGED <<reentered, failure, inspectorVars, popupVars>>

\* A collaborator calls toggle().
OverlayToggle ==
  /\ ovPc = "live"
  /\ IF ovEnabled THEN disable ELSE enable
  /\ last' = Call("toggle", Null, Display)
  /\ UNCHANGED detectorVars
  /\ UNCHANGED <<reentered, failure, inspectorVars, popupVars>>

\* A collaborator calls the manager's destroy(): disable(), then both
\* widgets are removed. The waiting observers are not disconnected.
OverlayDestroy ==
  /\ ovPc = "live"
  /\ ovEnabled' = FALSE
  /\ mouseMoveHandler' = IF ovEnabled THEN 0 ELSE mouseMoveHandler
  /\ mouseOutHandler' = IF ovEnabled THEN 0 ELSE mouseOutHandler
  /\ overlay' = Null
  /\ tooltip' = Null
  /\ last' = Call("destroy", Null, Display)
  /\ UNCHANGED <<ovPc, currentElement, bodyWait>>
  /\ UNCHANGED detectorVars
  /\ UNCHANGED <<reentered, failure, inspectorVars, popupVars>>

\* The nodes a mouse event can have as its target: the elements of the
\* document and the tooltip while it is displayed.
Targets == LiveElements \cup (IF tooltip = "block" THEN {"#tooltip"} ELSE {})

\* The host dispatches mousemove on `target` to the manager's listener:
\* handleMouseMove, and showOverlay when the target is a new one.
handleMouseMove(target) ==
  /\ mouseMoveHandler > 0
  /\ target \in Targets
  /\ last' = Call("handleMouseMove", target, Display)
  /\ IF ~ovEnabled \/ target = "#tooltip" \/ target = currentElement
       THEN UNCHANGED <<currentElement, overlay, tooltip>>
       ELSE /\ currentElement' = target
            /\ IF overlay = Null
                 THEN UNCHANGED <<overlay, tooltip>>
                 ELSE /\ overlay' = "block"
                      /\ tooltip' = Shown(tooltip)
  /\ UNCHANGED <<ovPc, ovEnabled, mouseMoveHandler, mouseOutHandler, bodyWait>>
  /\ UNCHANGED detectorVars
  /\ UNCHANGED <<reentered, failure, inspectorVars, popupVars>>

\* The host dispatches mouseout on `target`, the pointer going to `related`
\* (Null: out of the window), to the manager's listener: handleMouseOut.
handleMouseOut(target, related) ==
  /\ mouseOutHandler > 0
  /\ target \in Targets
  /\ related \in Targets \cup {Null}
  /\ last' = Call("handleMouseOut", target, Display)
  /\ IF /\ ovEnabled
        /\ target = currentElement
        /\ \/ related = Null
           \/ ~(related = currentElement \/ related \in querySelectorAll(parent, currentElement))
       THEN /\ overlay' = Hidden(overlay)
            /\ tooltip' = Hidden(tooltip)
            /\ currentElement' = Null
       ELSE UNCHANGED <<currentElement, overlay, tooltip>>
  /\ UNCHANGED <<ovPc, ovEnabled, mouseMoveHandler, mouseOutHandler, bodyWait>>
  /\ UNCHANGED detectorVars
  /\ UNCHANGED <<reentered, failure, inspectorVars, popupVars>>

\* ----------------------------------------------------- SSRInspector actions
\* The content script runs `new SSRInspector()` while storage holds `held`:
\* the detector, the overlay manager, then loadSettings() and the message and
\* keyboard listeners. An exception of the overlay manager's constructor ends
\* the script there, with the detector already running.
InspectorConstruct(held) ==
  /\ inspPc = "new"
  /\ pc = "new"
  /\ ovPc = "new"
  /\ last' = Step("InspectorConstruct")
  /\ pc' = "live"
  /\ init
  /\ newOverlayManager
  /\ inspPc' = ovPc'
  /\ getPending' = (ovPc' = "live")
  /\ getResult' = held
  /\ stored' = held
  /\ UNCHANGED <<inspEnabled, changes, flipped>>
  /\ UNCHANGED <<parent, readyState, dclFired, torn, leaked, reentered, failure, popupVars>>

\* The callback of chrome.storage.sync.get(['inspectorEnabled']) runs, with
\* the value the storage held when the constructor issued the request: the
\* host serves the requests of one context in the order they were made, so a
\* write a toggle() made since is not in the result.
LoadSettings ==
  /\ inspPc = "live"
  /\ getPending
  /\ getPending' = FALSE
  /\ inspEnabled' = (getResult = <<TRUE>>)
  /\ flipped' = IF flipped = <<>> THEN <<>> ELSE <<getResult = <<TRUE>>>>
  /\ IF getResult = <<TRUE>> THEN enable ELSE UNCHANGED overlayVars
  /\ last' = Call("loadSettings", Null, getResult)
  /\ UNCHANGED <<inspPc, stored, getResult, changes>>
  /\ UNCHANGED detectorVars
  /\ UNCHANGED <<reentered, failure, popupVars>>

\* SSRInspector.toggle(): the flag flips, the new value is written to storage
\* and the overlay follows. The write comes back to this tab as an onChanged
\* notification when it changes the stored value.
toggle ==
  /\ inspEnabled' = ~inspEnabled
  /\ flipped' = IF getPending \/ flipped = <<>> THEN <<>> ELSE <<~flipped[1]>>
  /\ stored' = <<~inspEnabled>>
  /\ changes' = IF stored # <<~inspEnabled>> THEN Append(changes, ~inspEnabled) ELSE changes
  /\ IF ~inspEnabled THEN enable ELSE disable
  /\ UNCHANGED <<inspPc, getPending, getResult>>

\* A TOGGLE_INSPECTOR message or the keyboard shortcut: toggle().
Toggle ==
  /\ inspPc = "live"
  /\ Len(changes) < MaxQueue
  /\ toggle
  /\ last' = Call("toggle", Null, ~inspEnabled)
  /\ UNCHANGED detectorVars
  /\ UNCHANGED <<reentered, failure, popupVars>>

\* The host delivers a storage.onChanged notification to storageListener.
StorageChanged ==
  /\ inspPc = "live"
  /\ changes # <<>>
  /\ changes' = Tail(changes)
  /\ inspEnabled' = Head(changes)
  /\ IF Head(changes) THEN enable ELSE disable
  /\ last' = Call("storageListener", Null, Head(changes))
  /\ UNCHANGED <<inspPc, stored, getPending, getResult, flipped>>
  /\ UNCHANGED detectorVars
  /\ UNCHANGED <<reentered, failure, popupVars>>

\* ------------------------------------------------------------ popup actions
\* The content script answers messages once its constructor has registered
\* the onMessage listener; without it sendMessage's callback runs with
\* chrome.runtime.lastError set.
Listening == inspPc = "live"

\* updateUI(enabled): the status text (the button's label follows it).
updateUI(enabled) == IF enabled THEN "Enabled" ELSE "Disabled"

\* The popup's DOMContentLoaded handler: the click listeners, loadStatus(),
\* loadStats() and the interval timer. Both loads start with chrome.tabs.query.
PopupOpen ==
  /\ popPc = "closed"
  /\ popPc' = "open"
  /\ statusReq' = "query"
  /\ statsReq' = "query"
  /\ last' = Step("PopupOpen")
  /\ UNCHANGED <<contentScriptAvailable, statusText, toggleDisabled, shownStats,
                 toggleQuery, toggleSent, toggleReplies>>
  /\ UNCHANGED detectorVars
  /\ UNCHANGED <<reentered, failure, inspectorVars, overlayVars>>

\* loadStatus: the callback of chrome.tabs.query. Without an active tab id
\* nothing is sent.
StatusQueried(hasTab) ==
  /\ statusReq = "query"
  /\ statusReq' = IF hasTab THEN "sent" ELSE "dropped"
  /\ last' = Call("StatusQueried", hasTab, Null)
  /\ UNCHANGED <<popPc, contentScriptAvailable, statusText, toggleDisabled, statsReq,
                 shownStats, toggleQuery, toggleSent, toggleReplies>>
  /\ UNCHANGED detectorVars
  /\ UNCHANGED <<reentered, failure, inspectorVars, overlayVars>>

\* loadStatus: the branch of the GET_STATUS callback taken on lastError.
statusFailed_TextOnly ==
  /\ statusText' = "Not Available"
  /\ UNCHANGED <<contentScriptAvailable, toggleDisabled>>

statusFailed ==
  /\ contentScriptAvailable' = FALSE
  /\ statusText' = "Not Available"
  /\ toggleDisabled' = TRUE

\* loadStatus: the callback of sendMessage(GET_STATUS). The request and its
\* answer are one step: the content script answers with its enabled flag, or
\* nobody listens.
StatusAnswered ==
  /\ statusReq = "sent"
  /\ statusReq' = "done"
  /\ IF Listening
       THEN /\ contentScriptAvailable' = TRUE
            /\ toggleDisabled' = FALSE
            /\ statusText' = updateUI(inspEnabled)
       ELSE statusFailed
  /\ last' = Call("StatusAnswered", Null, Listening)
  /\ UNCHANGED <<popPc, statsReq, shownStats, toggleQuery, toggleSent, toggleReplies>>
  /\ UNCHANGED detectorVars
  /\ UNCHANGED <<reentered, failure, inspectorVars, overlayVars>>

\* The interval timer, or the timeout set after a toggle, runs loadStats().
StatsTick ==
  /\ popPc = "open"
  /\ statsReq = "none"
  /\ statsReq' = "query"
  /\ last' = Step("StatsTick")
  /\ UNCHANGED <<popPc, contentScriptAvailable, statusText, toggleDisabled, statusReq,
                 shownStats, toggleQuery, toggleSent, toggleReplies>>
  /\ UNCHANGED detectorVars
  /\ UNCHANGED <<reentered, failure, inspectorVars, overlayVars>>

\* loadStats: the callback of chrome.tabs.query.
StatsQueried(hasTab) ==
  /\ statsReq = "query"
  /\ statsReq' = IF hasTab THEN "sent" ELSE "none"
  /\ last' = Call("StatsQueried", hasTab, Null)
  /\ UNCHANGED <<popPc, contentScriptAvailable, statusText, toggleDisabled, statusReq,
                 shownStats, toggleQuery, toggleSent, toggleReplies>>
  /\ UNCHANGED detectorVars
  /\ UNCHANGED <<reentered, failure, inspectorVars, overlayVars>>

\* loadStats: the callback of sendMessage(GET_STATS): the detector's counts,
\* or zeros on lastError.
StatsAnswered ==
  /\ statsReq = "sent"
  /\ statsReq' = "none"
  /\ shownStats' = IF Listening THEN getStats(elementStates, parent)
                                ELSE [ssr |-> 0, csr |-> 0, total |-> 0]
  /\ last' = Call("StatsAnswered", Null, Listening)
  /\ UNCHANGED <<popPc, contentScriptAvailable, statusText, toggleDisabled, statusReq,
                 toggleQuery, toggleSent, toggleReplies>>
  /\ UNCHANGED detectorVars
  /\ UNCHANGED <<reentered, failure, inspectorVars, overlayVars>>

\* The user clicks the toggle button. A disabled button dispatches no click
\* event; otherwise the handler returns at once when the content script is
\* not available, and else starts chrome.tabs.query.
ToggleClick ==
  /\ popPc = "open"
  /\ toggleQuery + toggleSent + Len(toggleReplies) < MaxQueue
  /\ toggleQuery' = IF toggleDisabled \/ ~contentScriptAvailable
                      THEN toggleQuery ELSE toggleQuery + 1
  /\ last' = Step("ToggleClick")
  /\ UNCHANGED <<popPc, contentScriptAvailable, statusText, toggleDisabled, statusReq,
                 statsReq, shownStats, toggleSent, toggleReplies>>
  /\ UNCHANGED detectorVars
  /\ UNCHANGED <<reentered, failure, inspectorVars, overlayVars>>

\* The click handler's chrome.tabs.query callback: TOGGLE_INSPECTOR is sent
\* to the active tab, if there is one.
ToggleQueried(hasTab) ==
  /\ toggleQuery > 0
  /\ toggleQuery' = toggleQuery - 1
  /\ toggleSent' = IF hasTab THEN toggleSent + 1 ELSE toggleSent
  /\ last' = Call("ToggleQueried", hasTab, Null)
  /\ UNCHANGED <<popPc, contentScriptAvailable, statusText, toggleDisabled, statusReq,
                 statsReq, shownStats, toggleReplies>>
  /\ UNCHANGED detectorVars
  /\ UNCHANGED <<reentered, failure, inspectorVars, overlayVars>>

\* A TOGGLE_INSPECTOR message reaches the tab: the content script's listener
\* runs toggle() and answers {enabled}. With no listener the answer is
\* lastError, and so it is when toggle() throws at its end, in
\* showNotification's document.body.appendChild, while the page has no body.
ToggleDelivered ==
  /\ toggleSent > 0
  /\ toggleSent' = toggleSent - 1
  /\ IF Listening
       THEN /\ Len(changes) < MaxQueue
            /\ toggle
            /\ toggleReplies' = Append(toggleReplies, IF body(parent) = Null THEN <<>>
                                                      ELSE <<~inspEnabled>>)
       ELSE /\ toggleReplies' = Append(toggleReplies, <<>>)
            /\ UNCHANGED <<inspectorVars, overlayVars>>
  /\ last' = Call("ToggleDelivered", Null, Listening)
  /\ UNCHANGED <<popPc, contentScriptAvailable, statusText, toggleDisabled, statusReq,
                 statsReq, shownStats, toggleQuery>>
  /\ UNCHANGED detectorVars
  /\ UNCHANGED <<reentered, failure>>

\* The click handler's sendMessage callback: nothing on lastError, else
\* updateUI(response.enabled) (the stats reload it schedules is StatsTick).
ToggleAnswered ==
  /\ toggleReplies # <<>>
  /\ toggleReplies' = Tail(toggleReplies)
  /\ statusText' = IF Head(toggleReplies) = <<>> THEN statusText
                   ELSE updateUI(Head(toggleReplies)[1])
  /\ last' = Call("ToggleAnswered", Null, Head(toggleReplies))
  /\ UNCHANGED <<popPc, contentScriptAvailable, toggleDisabled, statusReq,
                 statsReq, shownStats, toggleQuery, toggleSent>>
  /\ UNCHANGED detectorVars
  /\ UNCHANGED <<reentered, failure, inspectorVars, overlayVars>>

Next ==
  \/ \E e \in Elements, p \in Elements \cup {Doc} : Insert(e, p)
  \/ \E e \in Elements : Remove(e)
  \/ \E p \in Elements : InsertText(p)
  \/ ParseComplete
  \/ Construct
  \/ DOMContentLoaded
  \/ DeliverSSR
  \/ DeliverCSR
  \/ DeliverRemovals
  \/ Destroy

Spec == Init /\ [][Next]_vars

\* The same system with the collaborators' queries interleaved.
NextQuery ==
  \/ Next
  \/ \E e \in Elements : Classify(e)
  \/ Aggregate

SpecQuery == Init /\ [][NextQuery]_vars

\* The detector on a page where one element besides html, head and body
\* comes and goes.
NextSmall ==
  \/ \E e \in Elements \ {"e2"}, p \in Elements \cup {Doc} : Insert(e, p)
  \/ Remove("e1")
  \/ \E p \in Elements : InsertText(p)
  \/ ParseComplete
  \/ Construct
  \/ DOMContentLoaded
  \/ DeliverSSR
  \/ DeliverCSR
  \/ DeliverRemovals
  \/ Destroy

\* The detector with one second invocation of init().
NextReentrant ==
  \/ NextSmall
  \/ InitAgain
  \/ DeliverLeakedSSR
  \/ DeliverLeakedCSR

SpecReentrant == Init /\ [][NextReentrant]_vars

\* The detector on a host that may reject one observe() call.
NextReject ==
  \/ NextSmall
  \/ \E watch \in {"ssr", "csr"} : ConstructRejected(watch)
  \/ DOMContentLoadedRejected

SpecReject == Init /\ [][NextReject]_vars

\* The overlay manager over a detector, on a page that gets one element
\* besides html, head and body.
NextOverlay ==
  \/ \E e \in Elements \ {"e2"}, p \in Elements \cup {Doc} : Insert(e, p)
  \/ ParseComplete
  \/ Construct
  \/ DOMContentLoaded
  \/ DeliverSSR
  \/ DeliverCSR
  \/ OverlayConstruct
  \/ \E w \in {"tooltip", "overlay"} : BodyAppeared(w)
  \/ OverlayEnable
  \/ OverlayDisable
  \/ OverlayToggle
  \/ OverlayDestroy
  \/ \E target \in Elements \cup {"#tooltip"} : handleMouseMove(target)
  \/ \E target, related \in Elements \cup {"#tooltip", Null} : handleMouseOut(target, related)

SpecOverlay == Init /\ [][NextOverlay]_vars

\* The content script: the controller with its detector and its overlay
\* manager, on a page that gets one element besides html, head and body.
NextInspector ==
  \/ \E e \in Elements \ {"e2"}, p \in Elements \cup {Doc} : Insert(e, p)
  \/ ParseComplete
  \/ DOMContentLoaded
  \/ DeliverSSR
  \/ DeliverCSR
  \/ \E held \in {<<>>, <<TRUE>>, <<FALSE>>} : InspectorConstruct(held)
  \/ LoadSettings
  \/ Toggle
  \/ StorageChanged
  \/ \E w \in {"tooltip", "overlay"} : BodyAppeared(w)

SpecInspector == Init /\ [][NextInspector]_vars

\* The popup next to the content script of the active tab, which may load at
\* any moment (or never) while the page gets its body; the storage holds no
\* setting or true when the script loads.
NextPopup ==
  \/ PopupOpen
  \/ \E hasTab \in BOOLEAN : StatusQueried(hasTab)
  \/ StatusAnswered
  \/ StatsTick
  \/ \E hasTab \in BOOLEAN : StatsQueried(hasTab)
  \/ StatsAnswered
  \/ ToggleClick
  \/ \E hasTab \in BOOLEAN : ToggleQueried(hasTab)
  \/ ToggleDelivered
  \/ ToggleAnswered
  \/ \E held \in {<<>>, <<TRUE>>} : InspectorConstruct(held)
  \/ LoadSettings
  \/ StorageChanged
  \/ Insert("body", "html")

SpecPopup == Init /\ [][NextPopup]_vars

\* The detector with every query of its public interface interleaved.
NextAPI ==
  \/ NextSmall
  \/ \E e \in Elements : Classify(e)
  \/ \E e \in Elements : Reclassify(e)
  \/ \E e \in Elements : IsSSR(e)
  \/ Aggregate
  \/ GetPhase

SpecAPI == Init /\ [][NextAPI]_vars

\* ------------------------------------------------------------ properties

\* C1 (as claimed): once destroy() has been called, no later step changes
\* elementStates or leaves a watch installed.
C1_TeardownStability ==
  [][torn => /\ elementStates' = elementStates
             /\ ssrObserver'.ref = Null
             /\ csrObserver'.ref = Null]_vars

\* C2: an element with an SSR entry keeps classifying as SSR through every
\* later step, whatever removals and reinsertions the page makes.
C2_RelocationPreservesServer ==
  [][\A e \in Elements :
       elementStates[e] = SSR => getRenderType(elementStates', e) = SSR]_vars

\* C2 witness: during monitoring, with every record processed, a SERVER
\* element sits under a CLIENT element, where only a relocation can put it.
C2_Witness ==
  /\ phase = "monitoring_csr"
  /\ last.op = "DeliverCSR"
  /\ \E a, b \in Extra :
       /\ elementStates[a] = SSR /\ elementStates[b] = CSR
       /\ parent[a] = b /\ b \in LiveElements

\* C3 (as claimed): when the monitoring watch has processed a batch, the root
\* of every fresh subtree of the batch and every entry-less descendant it had
\* when it was inserted classify as CSR.
C3_FreshSubtreeAsInserted ==
  [][(last'.op = "DeliverCSR" /\ ~torn) =>
       \A i \in 1..Len(csrObserver.records) :
         \A d \in csrObserver.records[i].fresh :
           getRenderType(elementStates', d) = CSR]_vars

\* C3 (amended): when the monitoring watch has processed a batch, the root of
\* every fresh subtree of the batch classifies as CSR, and so does every
\* entry-less descendant it had when inserted that is still below it when
\* the batch is processed.
C3_FreshSubtreeAtProcessing ==
  [][(last'.op = "DeliverCSR" /\ ~torn) =>
       \A i \in 1..Len(csrObserver.records) :
         \A d \in StillUnder(parent, csrObserver.records[i]) :
           getRenderType(elementStates', d) = CSR]_vars

\* C3 witness: a batch has just been processed and a CLIENT element carries a
\* CLIENT child.
C3_Witness ==
  /\ last.op = "DeliverCSR"
  /\ ~torn
  /\ \E a, b \in Extra :
       /\ elementStates[a] = CSR /\ elementStates[b] = CSR
       /\ parent[b] = a /\ a \in LiveElements

\* C4: when the capture watch processes a batch, every element the batch adds
\* and every descendant of it holds an SSR entry, and no entry is CSR.
C4_CaptureInsertionsServer ==
  [][last'.op = "DeliverSSR" =>
       /\ \A n \in ElementsOf(ssrObserver.records) :
            \A d \in {n} \cup querySelectorAll(parent, n) : elementStates'[d] = SSR
       /\ \A e \in Elements : elementStates'[e] # CSR]_vars

\* C4 witness: the capture watch has just processed a batch; an element with
\* a child, both tagged SSR, is in the document while it is still loading.
C4_Witness ==
  /\ last.op = "DeliverSSR"
  /\ phase = "capturing_ssr"
  /\ \E a, b \in Extra :
       /\ elementStates[a] = SSR /\ elementStates[b] = SSR
       /\ parent[b] = a /\ a \in LiveElements

\* C5: the step that makes the phase monitoring_csr leaves every element of
\* the document with an SSR entry.
C5_AllTaggedAtTransition ==
  [][(phase = "capturing_ssr" /\ phase' = "monitoring_csr") =>
       \A e \in Elements :
         Doc \in Ancestors(parent', e) => elementStates'[e] = SSR]_vars

\* C5 witness: DOMContentLoaded has just switched the phase with all five
\* elements in the document.
C5_Witness ==
  /\ last.op = "DOMContentLoaded"
  /\ phase = "monitoring_csr"
  /\ LiveElements = Elements

\* C6: the phase starts at capturing_ssr, never leaves monitoring_csr, and
\* switchToCSRMonitoring runs at most once, from capturing_ssr.
C6_PhaseForwardOnly ==
  /\ phase = "capturing_ssr"
  /\ [][/\ phase = "monitoring_csr" => phase' = "monitoring_csr"
        /\ switchCount' <= 1
        /\ switchCount' # switchCount =>
             phase = "capturing_ssr" /\ phase' = "monitoring_csr"]_vars

\* C6 witness: after the switch and a teardown the page goes on changing.
C6_Witness ==
  /\ phase = "monitoring_csr"
  /\ switchCount = 1
  /\ torn
  /\ dclFired
  /\ last.op = "host"

\* C7: the constructor's initial walk leaves every element then in the
\* document with an SSR entry.
C7_InitialWalk ==
  [][(pc = "new" /\ pc' = "live") =>
       \A e \in Elements :
         Doc \in Ancestors(parent, e) => elementStates'[e] = SSR]_vars

\* C7 witness: the constructor has just returned, in the capture phase, on a
\* document of five elements.
C7_Witness ==
  /\ last.op = "Construct"
  /\ phase = "capturing_ssr"
  /\ Cardinality(LiveElements) = 5
  /\ \A e \in LiveElements : elementStates[e] = SSR

\* C8: once switchToCSRMonitoring has run, getRenderType gives SSR or CSR for
\* every element in the document.
C8_Totality ==
  switchCount >= 1 =>
    \A e \in LiveElements : getRenderType(elementStates, e) \in RenderType

\* C8 witness: during monitoring the document holds an element without an
\* entry and a CLIENT element.
C8_Witness ==
  /\ switchCount >= 1
  /\ \E e \in LiveElements : elementStates[e] = Null
  /\ \E e \in LiveElements : elementStates[e] = CSR

\* C9: getRenderType of an element without an entry returns SSR, in either
\* phase, and the call leaves the element without an entry.
C9_DefaultResolution ==
  [][\A e \in Elements :
       (last'.op = "getRenderType" /\ last'.arg = e /\ elementStates[e] = Null) =>
         /\ last'.value = SSR
         /\ elementStates' = elementStates]_vars

\* C9 witness: during monitoring getRenderType has just answered SSR for a
\* detached element that has no entry.
C9_Witness ==
  /\ last.op = "getRenderType"
  /\ phase = "monitoring_csr"
  /\ elementStates[last.arg] = Null
  /\ parent[last.arg] = Detached
  /\ last.value = SSR

\* C10: getStats reports as total the number of elements in the document, and
\* its ssr and csr counts add up to the total.
C10_AggregateConsistency ==
  LET stats == getStats(elementStates, parent)
  IN /\ stats.total = Cardinality(LiveElements)
     /\ stats.ssr + stats.csr = stats.total

\* C10 witness: the document holds SERVER and CLIENT elements and one without
\* an entry.
C10_Witness ==
  /\ getStats(elementStates, parent).csr >= 1
  /\ getStats(elementStates, parent).ssr >= 4
  /\ \E e \in LiveElements : elementStates[e] = Null

\* C11: an element with a CSR entry keeps classifying as CSR through every
\* later step (removal, reinsertion under another parent, processing of the
\* reinsertion), and the SSR entries around it stay SSR.
C11_ClientStaysClient ==
  [][\A e \in Elements :
       /\ elementStates[e] = CSR => getRenderType(elementStates', e) = CSR
       /\ (elementStates[e] = SSR /\ last'.op = "DeliverCSR") =>
            elementStates'[e] = SSR]_vars

\* C11 witness: the monitoring watch has just processed the reinsertion of
\* an element that already had its CSR entry, under an SSR parent other than
\* body, and the element is still CSR.
C11_Witness ==
  /\ last.op = "DeliverCSR"
  /\ ~torn
  /\ \E d \in last.value :
       /\ elementStates[d] = CSR
       /\ parent[d] \in Extra
       /\ elementStates[parent[d]] = SSR
       /\ d \in LiveElements

\* C12: when the monitoring watch processes a batch, no element that holds an
\* entry changes its tag, and every entry-less descendant of an entry-less
\* element of the batch ends up CSR.
C12_BulkPropagationNeverOverwrites ==
  [][last'.op = "DeliverCSR" =>
       /\ \A e \in Elements :
            elementStates[e] # Null => elementStates'[e] = elementStates[e]
       /\ \A n \in ElementsOf(csrObserver.records) :
            elementStates[n] = Null =>
              \A d \in querySelectorAll(parent, n) :
                elementStates[d] = Null => elementStates'[d] = CSR]_vars

\* C12 witness: the monitoring watch has just tagged a fresh element CSR whose
\* child came with it holding an SSR entry, and the child is still SSR.
C12_Witness ==
  /\ last.op = "DeliverCSR"
  /\ ~torn
  /\ \E n \in Extra \ last.value :
       /\ \E i \in 1..Len(last.arg) : last.arg[i] = n
       /\ elementStates[n] = CSR
       /\ \E d \in Extra : parent[d] = n /\ elementStates[d] = SSR

\* C13 (as claimed): every destroy() after the first changes nothing: no
\* watch, no entry of elementStates and not the phase.
C13_TeardownIdempotent ==
  [][(torn /\ last'.op = "Destroy") =>
       /\ elementStates' = elementStates
       /\ phase' = phase
       /\ ssrObserver' = ssrObserver
       /\ csrObserver' = csrObserver]_vars

\* C14 (as claimed): a second invocation of init() changes neither
\* elementStates, nor the phase, nor the installed watches, nor the
\* registered listeners.
C14_ReentrantInitNoOp ==
  [][last'.op = "InitAgain" =>
       /\ elementStates' = elementStates
       /\ phase' = phase
       /\ ssrObserver' = ssrObserver
       /\ csrObserver' = csrObserver
       /\ leaked' = leaked
       /\ dclListener' = dclListener]_vars

\* The steps that call a query of the public interface.
Queries == {"getRenderType", "getRenderType again", "isSSR", "getStats", "getPhase"}

\* C15: a query leaves elementStates, the phase and both watches as they
\* were, and elementStates changes only in the constructor, in the
\* DOMContentLoaded listener and in the two observer callbacks.
C15_QueriesHaveNoSideEffects ==
  [][/\ last'.op \in Queries =>
          /\ elementStates' = elementStates
          /\ phase' = phase
          /\ ssrObserver' = ssrObserver
          /\ csrObserver' = csrObserver
     /\ elementStates' # elementStates =>
          last'.op \in {"Construct", "DOMContentLoaded", "DeliverSSR", "DeliverCSR"}]_vars

\* C15 witness: isSSR has just answered FALSE for an element of the document
\* while the monitoring watch holds records it has not processed yet.
C15_Witness ==
  /\ last.op = "isSSR"
  /\ last.value = FALSE
  /\ last.arg \in LiveElements
  /\ csrObserver.records # <<>>

\* C16: a getRenderType call that follows a call for the same element, with
\* no step in between, returns what that call returned.
C16_IdempotentReclassification ==
  [][(last'.op = "getRenderType again" /\ last.op \in Queries /\ last.arg = last'.arg) =>
       last'.value = last.value]_vars

\* C16 witness: getRenderType has just been called again for an element
\* without an entry and for the second time the answer is SSR.
C16_Witness ==
  /\ last.op = "getRenderType again"
  /\ elementStates[last.arg] = Null
  /\ last.value = SSR
  /\ phase = "monitoring_csr"

\* C17 (as claimed): when the host has rejected an observe() call, the
\* exception has reached the caller of the constructor, and from then on no
\* watch is installed.
C17_RejectionReachesCaller ==
  failure # Null =>
    /\ failure = "caller"
    /\ ssrObserver.target = Null
    /\ csrObserver.target = Null

\* C18: destroy() drops the records the host has queued and not delivered,
\* so that no later delivery can process them, and leaves every entry of
\* elementStates as it is.
C18_CancellationImmediate ==
  [][last'.op = "Destroy" =>
       /\ ssrObserver'.records = <<>> /\ ssrObserver'.transient = {}
       /\ csrObserver'.records = <<>> /\ csrObserver'.transient = {}
       /\ elementStates' = elementStates]_vars

\* C18 witness: destroy() has just run during capture; an element inserted
\* since the constructor is in the document without an entry, its record
\* dropped, next to elements that keep their SSR entries.
C18_Witness ==
  /\ last.op = "Destroy"
  /\ phase = "capturing_ssr"
  /\ \E e \in LiveElements : elementStates[e] = Null
  /\ \E e \in LiveElements : elementStates[e] = SSR

\* C20: no step leaves the overlay or the tooltip displayed with the manager
\* not enabled (and initially neither exists), and disable() leaves neither
\* of them displayed.
C20_VisibleOnlyWhileEnabled ==
  [][/\ (overlay' = "block" \/ tooltip' = "block") => ovEnabled'
     /\ last'.op = "disable" => overlay' # "block" /\ tooltip' # "block"]_vars

\* C20 witness: disable() has just been called with the overlay and the
\* tooltip displayed on an element, and both are hidden now.
C20_Witness ==
  /\ last.op = "disable"
  /\ last.value.overlay = "block" /\ last.value.tooltip = "block"
  /\ overlay = "none" /\ tooltip = "none"
  /\ currentElement \in LiveElements

\* C19 (as claimed): a step that begins and ends with SSRInspector.enabled
\* false installs no watch and changes no entry of elementStates.
C19_NoAnalysisWhileDisabled ==
  [][(~inspEnabled /\ ~inspEnabled') =>
       /\ elementStates' = elementStates
       /\ ssrObserver'.ref # Null => ssrObserver.ref # Null
       /\ csrObserver'.ref # Null => csrObserver.ref # Null]_vars

\* C21 (as claimed): during monitoring, before teardown, once the monitoring
\* watch has processed every record, each element of the document that sits
\* under html, head or body and was not tagged SSR classifies as CSR.
C21_InsertedAnywhereClient ==
  (phase = "monitoring_csr" /\ ~torn /\ csrObserver.ref # Null
     /\ csrObserver.records = <<>>) =>
    \A e \in LiveElements :
      (parent[e] \in Structural /\ elementStates[e] # SSR) =>
        getRenderType(elementStates, e) = CSR

\* C22 (as claimed): when the monitoring watch processes the reinsertion of an
\* element that already has an entry, every descendant the element carries
\* that has no entry classifies as CSR afterwards.
C22_FreshDescendantsOfRelocated ==
  [][(last'.op = "DeliverCSR" /\ ~torn) =>
       \A n \in Known(elementStates, csrObserver.records) :
         \A d \in querySelectorAll(parent, n) :
           elementStates[d] = Null => getRenderType(elementStates', d) = CSR]_vars

\* C23: no step ends with the phase monitoring_csr and the capture watch
\* still held, nor with a monitoring watch held while the phase is
\* capturing_ssr, and the step that changes the phase ends with the final
\* walk done: every element of the document has an entry.
C23_SwitchStepOrder ==
  [][/\ phase' = "monitoring_csr" => ssrObserver'.ref = Null
     /\ csrObserver'.ref # Null => phase' = "monitoring_csr"
     /\ phase' # phase =>
          \A e \in Elements :
            Doc \in Ancestors(parent', e) => elementStates'[e] # Null]_vars

\* C23 witness: the DOMContentLoaded listener has just switched: the capture
\* watch is gone, the monitoring watch is on body, and an element the parser
\* added besides html, head and body is tagged.
C23_Witness ==
  /\ last.op = "DOMContentLoaded"
  /\ ~torn
  /\ phase = "monitoring_csr"
  /\ ssrObserver.ref = Null
  /\ csrObserver.target = "body"
  /\ \E e \in Extra \cap LiveElements : elementStates[e] = SSR

\* C24: an element that has an entry keeps it, with the same tag, through
\* every step: batches of either watch, the switch, teardown, page changes.
C24_WriteOnce ==
  [][\A e \in Elements :
       elementStates[e] # Null => elementStates'[e] = elementStates[e]]_vars

\* C24 witness: the monitoring watch has just processed a batch that holds
\* the same fresh element twice (inserted, removed and inserted again before
\* delivery), and the element is CSR.
C24_Witness ==
  /\ last.op = "DeliverCSR"
  /\ \E i, j \in 1..Len(last.arg) :
       /\ i < j
       /\ last.arg[i] = last.arg[j]
       /\ last.arg[i] \in Extra \ last.value
       /\ elementStates[last.arg[i]] = CSR

\* C25: while the phase is capturing_ssr no entry of elementStates is CSR.
C25_NoClientDuringCapture ==
  phase = "capturing_ssr" => \A e \in Elements : elementStates[e] # CSR

\* C25 witness: parsing has ended and DOMContentLoaded is still to come; the
\* capture watch has just processed a batch and an element besides html,
\* head and body is in the document, tagged SSR.
C25_Witness ==
  /\ phase = "capturing_ssr"
  /\ readyState = "interactive"
  /\ last.op = "DeliverSSR"
  /\ \E e \in Extra \cap LiveElements : elementStates[e] = SSR

\* C26: destroy() can run in either phase; it leaves the phase, every entry
\* of elementStates, the page and the registered listener as they are, and
\* ends with both watch fields null.
C26_TeardownOrthogonal ==
  [][last'.op = "Destroy" =>
       /\ phase' = phase
       /\ elementStates' = elementStates
       /\ ssrObserver'.ref = Null /\ csrObserver'.ref = Null
       /\ UNCHANGED <<parent, readyState, dclFired, dclListener, switchCount>>]_vars

\* C26 witness: destroy() has just run during monitoring, after the one switch,
\* and a CSR entry is still there.
C26_Witness ==
  /\ last.op = "Destroy"
  /\ phase = "monitoring_csr"
  /\ switchCount = 1
  /\ csrObserver.ref = Null
  /\ \E e \in Elements : elementStates[e] = CSR

\* C27: once the GET_STATUS callback has run with lastError, the popup shows
\* "Not Available" with the toggle button disabled, the flag never comes
\* back, and a click on the toggle button from then on starts no
\* TOGGLE_INSPECTOR request.
C27_PopupFailure ==
  [][/\ (last'.op = "StatusAnswered" /\ ~last'.value) =>
          /\ statusText' = "Not Available"
          /\ toggleDisabled'
          /\ ~contentScriptAvailable'
     /\ ~contentScriptAvailable => (~contentScriptAvailable' /\ toggleDisabled')
     /\ (last'.op = "ToggleClick" /\ ~contentScriptAvailable) =>
          UNCHANGED <<toggleQuery, toggleSent, toggleReplies>>]_vars

\* C27 witness: the user has clicked the toggle button after the failed
\* GET_STATUS, with the content script loaded by now, and nothing is in flight.
C27_Witness ==
  /\ last.op = "ToggleClick"
  /\ ~contentScriptAvailable
  /\ statusText = "Not Available"
  /\ Listening
  /\ toggleQuery = 0 /\ toggleSent = 0 /\ toggleReplies = <<>>

\* C28: a detector constructed when the document is no longer loading leaves
\* its constructor in monitoring_csr, after its one switch, with every element
\* of the document tagged SSR, no capture watch and no listener registered;
\* the DOMContentLoaded event dispatched later changes nothing of it.
C28_AlreadyParsed ==
  [][/\ (last'.op = "Construct" /\ readyState # "loading") =>
          /\ phase' = "monitoring_csr"
          /\ switchCount' = 1
          /\ ssrObserver'.ref = Null
          /\ csrObserver'.ref # Null
          /\ dclListener' = 0
          /\ \A e \in Elements :
               Doc \in Ancestors(parent, e) => elementStates'[e] = SSR
     /\ (last'.op = "DOMContentLoaded" /\ pc = "live" /\ ~dclFired /\ dclListener = 0) =>
          /\ phase = "monitoring_csr" /\ switchCount = 1
          /\ UNCHANGED <<phase, switchCount, elementStates, ssrObserver, csrObserver>>]_vars

\* C28 witness: DOMContentLoaded has just been dispatched to a detector that
\* had already classified a script's insertion, so it was constructed after
\* parsing, between readyState "interactive" and the event.
C28_Witness ==
  /\ last.op = "DOMContentLoaded"
  /\ ~torn
  /\ switchCount = 1
  /\ phase = "monitoring_csr"
  /\ ssrObserver.ref = Null
  /\ \E e \in LiveElements : elementStates[e] = CSR
  /\ \E e \in Extra \cap LiveElements : elementStates[e] = SSR

\* C29: the capture watch and the monitoring watch are never connected
\* together, no connected watch is left without a field referring to it, and
\* a detector creates its monitoring watch at most once.
C29_OneWatch ==
  /\ ~(ssrObserver.ref # Null /\ csrObserver.ref # Null)
  /\ leaked = NoLeak
  /\ switchCount <= 1

\* C29 witness: after the one switch, which came with the event, the
\* monitoring watch holds undelivered records and the capture watch is gone.
C29_Witness ==
  /\ last.op = "host"
  /\ dclFired
  /\ ~torn
  /\ switchCount = 1
  /\ csrObserver.ref # Null
  /\ csrObserver.records # <<>>
  /\ ssrObserver.ref = Null
  /\ \E e \in Elements : elementStates[e] = CSR

\* C30 (as claimed): whenever the content script is running, after every
\* callback, SSRInspector.enabled equals OverlayManager.isEnabled().
C30_ControllerOverlayAgree ==
  inspPc = "live" => inspEnabled = ovEnabled

\* C31 (as claimed): with every toggle() invoked after the settings were
\* loaded, once every storage-change notification has been delivered the
\* enabled flag is the value the load left, flipped once per toggle().
C31_EachToggleFlipsOnce ==
  (inspPc = "live" /\ ~getPending /\ changes = <<>> /\ flipped # <<>>) =>
    inspEnabled = flipped[1]

\* C32 (as claimed): once the settings callback has run and no storage-change
\* notification is pending, the enabled flag is the value the storage holds
\* for inspectorEnabled (false when it holds none).
C32_SettingConverges ==
  (inspPc = "live" /\ ~getPending /\ changes = <<>>) =>
    inspEnabled = (stored = <<TRUE>>)

\* C33: the document carries one mousemove and one mouseout listener of the
\* manager while the manager is enabled and none while it is not, whatever
\* enable(), disable(), toggle() and destroy() calls came before.
C33_OneListenerPair ==
  /\ mouseMoveHandler = (IF ovEnabled THEN 1 ELSE 0)
  /\ mouseOutHandler = (IF ovEnabled THEN 1 ELSE 0)

\* C33 witness: enable() has just been called on a manager that was already
\* enabled (its overlay was on display), after a destroy() (the tooltip is
\* gone) and the enable() that followed it.
C33_Witness ==
  /\ last.op = "enable"
  /\ last.value.overlay = "block"
  /\ ovEnabled
  /\ tooltip = Null
  /\ body(parent) # Null
  /\ bodyWait = {}

\* C34 (as claimed): no step leaves the overlay hidden with a current element
\* remembered, and a mouse move over an element of the page, handled while
\* the manager is enabled and has its overlay, leaves the overlay displayed.
C34_HiddenMeansNoCurrent ==
  [][/\ overlay' = "none" => currentElement' = Null
     /\ (last'.op = "handleMouseMove" /\ ovEnabled /\ overlay # Null
           /\ last'.arg \in Elements) => overlay' = "block"]_vars

====
